---- MODULE Spec2Model ----
(***************************************************************************)
(* Model registry and versioning engine of backend/app/services/registry.py *)
(* together with the two delete paths (REST router and chat tool), and the  *)
(* prediction service of backend/app/services/predictor.py.                 *)
(*                                                                          *)
(* Model identifiers are uuid4 strings in the program; here they are the    *)
(* integers 1, 2, ... in the order save_model generated them.  The          *)
(* registry is a Python dict, whose iteration order is insertion order,     *)
(* hence ascending identifier (json.load and json.dump keep that order and  *)
(* re-assigning an existing key does not move it).                          *)
(***************************************************************************)
EXTENDS Integers, FiniteSets, Sequences, TLC

\* length of a run, counted in records registered plus failures met (an
\* artifact write, a deserialization or a registry write that fails)
MaxModels == 3

\* number of models the cache is made to hold at once
MaxLoaded == 1

\* number of records in a registry document found at startup
MaxDocRecords == 2

\* number of keys in the features of a single prediction request
MaxKeys == 3

\* number of elements in a batch prediction request
MaxBatch == 2

\* number of upload requests that arrive in a run
MaxUploads == 2

\* names a caller may give to an upload
Names == {"a", "b"}

\* parent_model_id = None
NoParent == 0

Ids == 1..MaxModels

\* result of a family walk that never returns (cycle of parent links)
Diverges == -1

\* None in the probability field of a response, and an estimator without
\* predict_proba
NoProba == -1

VARIABLES
    models,         \* ModelRegistry.models: id -> ModelMeta
    loaded_models,  \* ModelRegistry.loaded_models: ids with a cached model
    files,          \* ids whose artifact file exists under models_storage_path
    disk,           \* the document in registry.json
    nextId,         \* the id the next uuid4() stands for
    now,            \* the last value datetime.utcnow() returned
    faults,         \* failures met so far in the run
    torn,           \* registry.json was truncated by a write that never finished
    request,        \* the prediction request at hand
    uploads,        \* the upload requests received, in order of arrival
    retired,        \* history: what is remembered of the records deleted
    calls,          \* the registry calls in progress on two threads
    last            \* outcome of the last call

vars == <<models, loaded_models, files, disk, nextId, now, faults, torn,
          request, uploads, retired, calls, last>>

----------------------------------------------------------------------------
(* Helpers on a registry mapping ms : id -> record *)

EmptyRegistry == [i \in {} |-> 0]

MaxOf(S) == CHOOSE x \in S : \A y \in S : y <= x

\* max(records, key=lambda m: m.version): the first record, in dict order,
\* that has the greatest version
MaxByVersion(ms, S) ==
    CHOOSE m \in S : \A o \in S :
        \/ ms[m].version > ms[o].version
        \/ ms[m].version = ms[o].version /\ m <= o

\* the loop of _get_model_family that climbs to the root: root is
\* root_model_id, and target_model is get_model(root)
RECURSIVE RootWalk(_, _, _)
RootWalk(ms, root, fuel) ==
    IF root \in DOMAIN ms /\ ms[root].parent_model_id # NoParent
    THEN IF fuel = 0 THEN Diverges
         ELSE RootWalk(ms, ms[root].parent_model_id, fuel - 1)
    ELSE root

\* _is_descendant: cur is the id of the loop variable "model"
RECURSIVE IsDescendantFrom(_, _, _, _)
IsDescendantFrom(ms, cur, ancestor_id, fuel) ==
    IF cur \in DOMAIN ms /\ ms[cur].parent_model_id # NoParent
    THEN IF ms[cur].parent_model_id = ancestor_id THEN TRUE
         ELSE IF fuel = 0 THEN FALSE
         ELSE IsDescendantFrom(ms, ms[cur].parent_model_id, ancestor_id, fuel - 1)
    ELSE FALSE

IsDescendant(ms, model_id, ancestor_id) ==
    IsDescendantFrom(ms, model_id, ancestor_id, Cardinality(DOMAIN ms))

\* variant: only the root and its direct children are collected
GetModelFamilyChildrenOnly(ms, model_id) ==
    IF model_id \notin DOMAIN ms THEN {}
    ELSE LET root_model_id == RootWalk(ms, model_id, Cardinality(DOMAIN ms))
         IN  {m \in DOMAIN ms :
                \/ m = root_model_id
                \/ ms[m].parent_model_id = root_model_id}

\* _get_model_family, as the set of ids of the returned records
GetModelFamily(ms, model_id) ==
    IF model_id \notin DOMAIN ms THEN {}
    ELSE LET root_model_id == RootWalk(ms, model_id, Cardinality(DOMAIN ms))
         IN  {m \in DOMAIN ms :
                \/ m = root_model_id
                \/ ms[m].parent_model_id = root_model_id
                \/ IsDescendant(ms, m, root_model_id)}

\* the while loop of _is_descendant never ends: it neither meets ancestor_id
\* nor a record without parent nor a missing id (after as many steps as there
\* are records it is going round a cycle)
RECURSIVE DescentLoops(_, _, _, _)
DescentLoops(ms, cur, ancestor_id, fuel) ==
    IF cur \in DOMAIN ms /\ ms[cur].parent_model_id # NoParent
    THEN IF ms[cur].parent_model_id = ancestor_id THEN FALSE
         ELSE IF fuel = 0 THEN TRUE
         ELSE DescentLoops(ms, ms[cur].parent_model_id, ancestor_id, fuel - 1)
    ELSE FALSE

\* _get_model_family(model_id) never returns: its own while loop never ends,
\* or that of a call of _is_descendant it makes
FamilyLoops(ms, model_id) ==
    /\ model_id \in DOMAIN ms
    /\ LET root_model_id == RootWalk(ms, model_id, Cardinality(DOMAIN ms))
       IN  \/ root_model_id = Diverges
           \/ \E m \in DOMAIN ms :
                /\ m # root_model_id
                /\ ms[m].parent_model_id # root_model_id
                /\ DescentLoops(ms, m, root_model_id, Cardinality(DOMAIN ms))

\* existing_models of the by-name branch, and get_models_by_name
SameName(ms, name) == {m \in DOMAIN ms : ms[m].name = name}

\* get_latest_models
GetLatestModels(ms) == {m \in DOMAIN ms : ms[m].is_latest}

\* get_latest_model_by_name, when it returns a record: the first record of
\* get_models_by_name(name) that has the greatest version
GetLatestModelByName(ms, name) == MaxByVersion(ms, SameName(ms, name))

----------------------------------------------------------------------------
(* save_model: the versioning step *)

\* variant: the is_new_version flag is not consulted
VersioningBranchIgnoringFlag(meta) ==
    IF meta.parent_model_id # NoParent THEN "explicit" ELSE "by_name"

\* which branch of "Handle versioning logic" a request takes
VersioningBranch(meta) ==
    IF meta.is_new_version /\ meta.parent_model_id # NoParent THEN "explicit"
    ELSE IF meta.is_new_version /\ meta.parent_model_id = NoParent THEN "by_name"
    ELSE "none"

\* variant: the parent lookup is never found wanting
ParentMissingNever(ms, meta) == FALSE

\* "if not parent_model: raise ValueError"
ParentMissing(ms, meta) == meta.parent_model_id \notin DOMAIN ms

\* variant: the version follows the parent's own version
ExplicitVersionFromParent(ms, parent) ==
    IF parent \in DOMAIN ms THEN ms[parent].version + 1 ELSE 2

\* version computed in the explicit-parent branch
ExplicitVersion(ms, parent) ==
    LET model_family == GetModelFamily(ms, parent)
    IN  IF model_family # {}
        THEN MaxOf({ms[m].version : m \in model_family}) + 1
        ELSE 2

\* records whose is_latest the explicit-parent branch clears
ExplicitDemoted(ms, parent) ==
    {m \in GetModelFamily(ms, parent) : ms[m].is_latest}

\* latest_model of the by-name branch
NameParent(ms, name) == MaxByVersion(ms, SameName(ms, name))

\* version computed in the by-name branch
NameVersion(ms, name) == ms[NameParent(ms, name)].version + 1

\* records whose is_latest the by-name branch clears
NameDemoted(ms, name) == {m \in SameName(ms, name) : ms[m].is_latest}

\* existing_model.is_latest = False; existing_model.updated_at = utcnow()
Demote(ms, S, t) ==
    [m \in DOMAIN ms |->
        IF m \in S THEN [ms[m] EXCEPT !.is_latest = FALSE, !.updated_at = t]
        ELSE ms[m]]

\* the whole versioning step: the mapping after the flips, and the version
\* and parent the new record will carry
Versioning(ms, meta, t) ==
    LET br == VersioningBranch(meta)
    IN  IF br = "explicit"
        THEN [ms |-> Demote(ms, ExplicitDemoted(ms, meta.parent_model_id), t),
              version |-> ExplicitVersion(ms, meta.parent_model_id),
              parent_model_id |-> meta.parent_model_id]
        ELSE IF br = "by_name" /\ SameName(ms, meta.name) # {}
        THEN [ms |-> Demote(ms, NameDemoted(ms, meta.name), t),
              version |-> NameVersion(ms, meta.name),
              parent_model_id |-> NameParent(ms, meta.name)]
        ELSE [ms |-> ms, version |-> 1, parent_model_id |-> NoParent]

\* variant: the except branch of the inspection leaves the status alone
InspectedKeepingStatus(rec, loadOk) ==
    IF loadOk
    THEN [rec EXCEPT !.status = "deployed", !.model_info = "model_class"]
    ELSE [rec EXCEPT !.model_info = "error"]

\* "Try to load and inspect the model": joblib.load and the inspection of
\* the estimator go through (loadOk) or one of them raises.  model_info is
\* "model_class" for the description of the estimator, "error" for
\* {"error": str(e)} and "none" for None
Inspected(rec, loadOk) ==
    IF loadOk
    THEN [rec EXCEPT !.status = "deployed", !.model_info = "model_class"]
    ELSE [rec EXCEPT !.status = "error", !.model_info = "error"]

\* full_metadata as stored in the registry under model_id; file_path, which
\* is the storage directory joined with model_id and the extension, is held
\* as the id in the file name
NewRecord(model_id, meta, v, t, loadOk) ==
    Inspected([id |-> model_id,
               file_path |-> model_id,
               name |-> meta.name,
               version |-> v.version,
               parent_model_id |-> v.parent_model_id,
               is_latest |-> TRUE,
               created_at |-> t,
               updated_at |-> t,
               status |-> "uploaded",
               model_info |-> "none"], loadOk)

\* self.models[model_id] = full_metadata
Put(ms, id, rec) ==
    [m \in DOMAIN ms \cup {id} |-> IF m = id THEN rec ELSE ms[m]]

\* del self.models[model_id]
Remove(ms, id) == [m \in DOMAIN ms \ {id} |-> ms[m]]

\* _save_registry: the document is rewritten unless the write raises (at
\* open, so that the file is left as it was), and the exception is swallowed
SaveRegistry(ms, old, persistOk) == IF persistOk THEN ms ELSE old

\* a write that goes through replaces whatever an interrupted write left
StillTorn(was, persistOk) == was /\ ~persistOk

----------------------------------------------------------------------------
(* reload *)

\* variant: a reload puts every record back to the status of a fresh upload
DefaultedAsUploaded(rec) ==
    [id |-> rec.id,
     file_path |-> rec.file_path,
     name |-> rec.name,
     version |-> IF "version" \in DOMAIN rec THEN rec.version ELSE 1,
     parent_model_id |-> IF "parent_model_id" \in DOMAIN rec
                         THEN rec.parent_model_id ELSE NoParent,
     is_latest |-> IF "is_latest" \in DOMAIN rec THEN rec.is_latest ELSE TRUE,
     created_at |-> rec.created_at,
     updated_at |-> rec.updated_at,
     status |-> "uploaded",
     model_info |-> rec.model_info]

\* the defaulting of missing versioning fields in _load_registry
Defaulted(rec) ==
    [id |-> rec.id,
     file_path |-> rec.file_path,
     name |-> rec.name,
     version |-> IF "version" \in DOMAIN rec THEN rec.version ELSE 1,
     parent_model_id |-> IF "parent_model_id" \in DOMAIN rec
                         THEN rec.parent_model_id ELSE NoParent,
     is_latest |-> IF "is_latest" \in DOMAIN rec THEN rec.is_latest ELSE TRUE,
     created_at |-> rec.created_at,
     updated_at |-> rec.updated_at,
     status |-> rec.status,
     model_info |-> rec.model_info]

\* variant: the group is ordered by the stored version, newest first
SortIndexByVersion(ms, m) ==
    Cardinality({o \in SameName(ms, ms[m].name) :
        \/ ms[o].version > ms[m].version
        \/ ms[o].version = ms[m].version /\ o < m})

\* position (from 0) of m in its name group after models.sort(key=created_at);
\* the sort is stable, so ties keep dict order
SortIndex(ms, m) ==
    Cardinality({o \in SameName(ms, ms[m].name) :
        \/ ms[o].created_at < ms[m].created_at
        \/ ms[o].created_at = ms[m].created_at /\ o < m})

\* _migrate_existing_models, without its trailing _save_registry
MigrateExistingModels(ms) ==
    [m \in DOMAIN ms |->
        LET n == Cardinality(SameName(ms, ms[m].name))
        IN  IF n > 1
            THEN [ms[m] EXCEPT !.version = SortIndex(ms, m) + 1,
                               !.is_latest = (SortIndex(ms, m) = n - 1)]
            ELSE [ms[m] EXCEPT !.is_latest = TRUE]]

\* ModelMeta(**model_data) validates: name is a required field
Valid(rec) == "name" \in DOMAIN rec

\* json.load returns and every record of the document validates, so that
\* _load_registry reaches _migrate_existing_models
LoadCompletes(doc, cut) == ~cut /\ \A m \in DOMAIN doc : Valid(doc[m])

\* the records the loop of _load_registry has stored when it ends: all of
\* them, or those before the first one that fails validation, or none when
\* json.load raises on a truncated file
Parsed(doc, cut) ==
    IF cut THEN {}
    ELSE {m \in DOMAIN doc : \A o \in DOMAIN doc : o <= m => Valid(doc[o])}

\* _load_registry: self.models when it returns
LoadRegistry(doc, cut) ==
    LET ms == [m \in Parsed(doc, cut) |-> Defaulted(doc[m])]
    IN  IF LoadCompletes(doc, cut) THEN MigrateExistingModels(ms) ELSE ms

----------------------------------------------------------------------------
(* delete *)

\* variant: the cache entry is left behind
EvictNothing(cache, model_id) == cache

\* "if model_id in self.loaded_models: del self.loaded_models[model_id]"
Evict(cache, model_id) == cache \ {model_id}

\* variant: the promotion runs whatever the deleted record's flag
ShouldPromoteAlways(ms, model_id) == TRUE

\* "if is_latest:" of the chat tool
ShouldPromote(ms, model_id) == ms[model_id].is_latest

\* the promotion step of the chat tool delete_model
PromoteOnDelete(ms, model_id) ==
    LET other_versions == GetModelFamily(ms, model_id) \ {model_id}
    IN  IF ShouldPromote(ms, model_id) /\ other_versions # {}
        THEN [ms EXCEPT ![MaxByVersion(ms, other_versions)].is_latest = TRUE]
        ELSE ms

----------------------------------------------------------------------------
(* State machine *)

\* how the last call ended.  result names the outcome, id the record the
\* call created, removed or refused, flag is is_new_version for a save and
\* the is_latest value of the removed record for a delete, parent_given
\* tells whether a save named a parent, cached whether a delete found the
\* record's model in the cache, value is what a prediction call returned,
\* probability and confidence are those fields of a PredictionResponse, and
\* http is the status code of the response when the call came through a
\* route of routers/predict.py (0 when it did not)
Call(result, id, flag, parent_given) ==
    [result |-> result, id |-> id, flag |-> flag, parent_given |-> parent_given,
     cached |-> FALSE, value |-> <<>>,
     probability |-> NoProba, confidence |-> "none", http |-> 0]

\* no call in progress
Idle == [pc |-> "idle", id |-> 0]

\* neither thread is inside load_model or delete_model
NoCalls == [load |-> Idle, delete |-> Idle]

\* no prediction request at hand
NoRequest == [feature_names |-> <<>>, batch |-> <<>>, proba |-> NoProba]

\* an outcome that is a failure counts as one step of the run
Cost(ok) == IF ok THEN 0 ELSE 1

\* the run has room for n more records or failures
Room(n) == (nextId - 1) + faults + n <= MaxModels

Init ==
    /\ models = EmptyRegistry
    /\ loaded_models = {}
    /\ files = {}
    /\ disk = EmptyRegistry
    /\ nextId = 1
    /\ now = 0
    /\ faults = 0
    /\ torn = FALSE
    /\ request = NoRequest
    /\ uploads = <<>>
    /\ retired = {}
    /\ calls = NoCalls
    /\ last = Call("init", 0, FALSE, FALSE)

\* the body of ModelRegistry.save_model
SaveModelBody(name, inv, parent, writeOk, loadOk, persistOk) ==
    LET meta == [name |-> name, is_new_version |-> inv, parent_model_id |-> parent]
    IN  IF VersioningBranch(meta) = "explicit" /\ ParentMissing(models, meta)
        THEN /\ writeOk /\ loadOk /\ persistOk
             /\ last' = Call("ParentNotFound", 0, inv, TRUE)
             /\ UNCHANGED <<models, loaded_models, files, disk, nextId, now, faults, torn, request>>
        ELSE LET t == now + 1
                 v == Versioning(models, meta, t)
             IN  /\ now' = t
                 /\ UNCHANGED <<loaded_models, request>>
                 /\ IF writeOk
                    THEN /\ Room(1 + Cost(loadOk) + Cost(persistOk))
                         /\ faults' = faults + Cost(loadOk) + Cost(persistOk)
                         /\ nextId' = nextId + 1
                         /\ models' = Put(v.ms, nextId, NewRecord(nextId, meta, v, t, loadOk))
                         /\ files' = files \cup {nextId}
                         /\ disk' = SaveRegistry(models', disk, persistOk)
                         /\ torn' = StillTorn(torn, persistOk)
                         /\ last' = Call("saved", nextId, inv, parent # NoParent)
                    ELSE /\ loadOk /\ persistOk
                         /\ Room(1)
                         /\ faults' = faults + 1
                         /\ models' = v.ms
                         /\ UNCHANGED <<files, disk, nextId, torn>>
                         /\ last' = Call("IOError", 0, inv, parent # NoParent)

\* ModelRegistry.save_model, called with no upload request in flight
SaveModel(name, inv, parent, writeOk, loadOk, persistOk) ==
    /\ SaveModelBody(name, inv, parent, writeOk, loadOk, persistOk)
    /\ UNCHANGED <<uploads, retired, calls>>

\* the body of ModelRegistry.delete_model
DeleteModelBody(model_id, persistOk) ==
    IF model_id \notin DOMAIN models
    THEN /\ persistOk
         /\ last' = Call("NotFound", 0, FALSE, FALSE)
         /\ UNCHANGED <<models, loaded_models, files, disk, nextId, now, faults, torn, request, uploads>>
    ELSE /\ Room(Cost(persistOk))
         /\ faults' = faults + Cost(persistOk)
         /\ files' = files \ {model_id}
         /\ loaded_models' = Evict(loaded_models, model_id)
         /\ models' = Remove(models, model_id)
         /\ disk' = SaveRegistry(models', disk, persistOk)
         /\ torn' = StillTorn(torn, persistOk)
         /\ last' = [Call("deleted", model_id, models[model_id].is_latest, FALSE)
                        EXCEPT !.cached = model_id \in loaded_models]
         /\ UNCHANGED <<nextId, now, request, uploads>>

\* ModelRegistry.delete_model, as called by DELETE /models/{model_id}
DeleteModel(model_id, persistOk) ==
    /\ DeleteModelBody(model_id, persistOk)
    /\ UNCHANGED <<retired, calls>>

\* the body of tools/models.py delete_model
ToolDeleteModelBody(model_id, persistOk1, persistOk2) ==
    IF model_id \notin DOMAIN models
    THEN /\ persistOk1 /\ persistOk2
         /\ last' = Call("NotFound", 0, FALSE, FALSE)
         /\ UNCHANGED <<models, loaded_models, files, disk, nextId, now, faults, torn, request, uploads>>
    ELSE /\ Room(Cost(persistOk1) + Cost(persistOk2))
         /\ faults' = faults + Cost(persistOk1) + Cost(persistOk2)
         /\ files' = files \ {model_id}
         /\ loaded_models' = Evict(loaded_models, model_id)
         /\ models' = Remove(PromoteOnDelete(models, model_id), model_id)
         /\ disk' = SaveRegistry(models', SaveRegistry(models', disk, persistOk1), persistOk2)
         /\ torn' = StillTorn(StillTorn(torn, persistOk1), persistOk2)
         /\ last' = [Call("tool_deleted", model_id, models[model_id].is_latest, FALSE)
                        EXCEPT !.cached = model_id \in loaded_models]
         /\ UNCHANGED <<nextId, now, request, uploads>>

\* tools/models.py delete_model
ToolDeleteModel(model_id, persistOk1, persistOk2) ==
    /\ ToolDeleteModelBody(model_id, persistOk1, persistOk2)
    /\ UNCHANGED <<retired, calls>>

\* variant: the status of the record is not looked at
LoadOutcomeAnyStatus(model_id) ==
    IF model_id \notin DOMAIN models THEN "NotFound"
    ELSE IF model_id \in loaded_models THEN "hit"
    ELSE IF model_id \in files THEN "load"
    ELSE "LoadFailed"

\* how load_model(model_id) ends
LoadOutcome(model_id) ==
    IF model_id \notin DOMAIN models THEN "NotFound"
    ELSE IF model_id \in loaded_models THEN "hit"
    ELSE IF models[model_id].status # "deployed" THEN "NotDeployed"
    ELSE IF model_id \in files THEN "load"
    ELSE "LoadFailed"

\* ModelRegistry.load_model
LoadModel(model_id) ==
    /\ UNCHANGED <<models, files, disk, nextId, now, faults, torn, request, uploads, retired, calls>>
    /\ IF LoadOutcome(model_id) = "NotFound"
       THEN /\ last' = Call("NotFound", 0, FALSE, FALSE)
            /\ UNCHANGED loaded_models
       ELSE IF LoadOutcome(model_id) = "hit"
       THEN /\ last' = Call("loaded", 0, FALSE, FALSE)
            /\ UNCHANGED loaded_models
       ELSE IF LoadOutcome(model_id) = "load"
       THEN /\ Cardinality(loaded_models) < MaxLoaded
            /\ last' = Call("loaded", 0, FALSE, FALSE)
            /\ loaded_models' = loaded_models \cup {model_id}
       ELSE /\ last' = Call(LoadOutcome(model_id), model_id, FALSE, FALSE)
            /\ UNCHANGED loaded_models

\* process restart: ModelRegistry.__init__ with the document left on disk
Restart(persistOk) ==
    /\ models' = LoadRegistry(disk, torn)
    /\ loaded_models' = {}
    /\ UNCHANGED <<files, nextId, now, request, uploads, retired, calls>>
    /\ IF LoadCompletes(disk, torn)
       THEN /\ Room(Cost(persistOk))
            /\ faults' = faults + Cost(persistOk)
            /\ disk' = SaveRegistry(models', disk, persistOk)
            /\ torn' = StillTorn(torn, persistOk)
            /\ last' = Call("restarted", 0, FALSE, FALSE)
       ELSE /\ persistOk
            /\ last' = Call("load_failed", 0, FALSE, FALSE)
            /\ UNCHANGED <<disk, torn, faults>>

\* a further call of _migrate_existing_models, trailing _save_registry
\* included; the flag of the outcome tells whether the registry had been
\* through the pass before
Reconcile(persistOk) ==
    /\ Room(Cost(persistOk))
    /\ faults' = faults + Cost(persistOk)
    /\ models' = MigrateExistingModels(models)
    /\ disk' = SaveRegistry(models', disk, persistOk)
    /\ torn' = StillTorn(torn, persistOk)
    /\ last' = Call("migrated", 0, last.result \in {"restarted", "migrated"}, FALSE)
    /\ UNCHANGED <<loaded_models, files, nextId, now, request, uploads, retired, calls>>

\* Registry and versioning operations, with failures of the artifact write
\* and of the registry write; every artifact deserializes and no prediction
\* populates the cache
Next ==
    \/ \E name \in Names, inv \in BOOLEAN, parent \in Ids \cup {NoParent},
          writeOk \in BOOLEAN, persistOk \in BOOLEAN :
            SaveModel(name, inv, parent, writeOk, TRUE, persistOk)
    \/ \E model_id \in Ids, persistOk \in BOOLEAN : DeleteModel(model_id, persistOk)
    \/ \E model_id \in Ids, persistOk1 \in BOOLEAN, persistOk2 \in BOOLEAN :
            ToolDeleteModel(model_id, persistOk1, persistOk2)
    \/ \E persistOk \in BOOLEAN : Restart(persistOk)

Spec == Init /\ [][Next]_vars

----------------------------------------------------------------------------
(* Prediction service *)

\* names an estimator may have been fitted with (feature_names_in_)
FeatureNames == {"f1", "f2"}

\* keys a caller may send: the names above and one that no estimator knows
InputKeys == FeatureNames \cup {"g"}

\* JSON null, which pandas holds as a missing value
Null == "null"

\* a string that is not a number, on which the estimator raises
NotANumber == "x"

\* "if probability >= 0.8" and "elif probability >= 0.6", in hundredths
HighThreshold == 80

MediumThreshold == 60

\* what float(max(proba)) may be, in hundredths
Probabilities == 0..100

\* values a caller may send for a key
Values == {Null, "1", "2", NotANumber}

\* a features dict of at most n keys, as the sequence of its items in
\* insertion order: <<key, value>> pairs with distinct keys
FeatureMaps(n) ==
    {f \in UNION {[1..k -> InputKeys \X Values] : k \in 0..n} :
        \A i, j \in DOMAIN f : i # j => f[i][1] # f[j][1]}

\* "name in features"
HasKey(features, name) == \E i \in DOMAIN features : features[i][1] = name

\* features[name]
ValueOf(features, name) ==
    features[CHOOSE i \in DOMAIN features : features[i][1] = name][2]

\* the cell of column name in pd.DataFrame([features]).reindex(columns=
\* feature_names): the value sent, or a missing value when the key is absent
Cell(features, name) ==
    IF HasKey(features, name) THEN ValueOf(features, name) ELSE Null

\* missing_features[missing_features].index.tolist(): the columns, in
\* declared order, for which df.isnull().any() holds
MissingCols(feature_names, features) ==
    SelectSeq(feature_names, LAMBDA name : Cell(features, name) = Null)

\* _prepare_features once the record is found.  A record with feature_names
\* None or [] takes the fallback on list(features.values())
PrepareFeatures(feature_names, features) ==
    IF feature_names # <<>>
    THEN IF MissingCols(feature_names, features) # <<>>
         THEN [ok |-> FALSE, missing |-> MissingCols(feature_names, features),
               X |-> <<>>]
         ELSE [ok |-> TRUE, missing |-> <<>>,
               X |-> [i \in DOMAIN feature_names |->
                        Cell(features, feature_names[i])]]
    ELSE [ok |-> TRUE, missing |-> <<>>,
          X |-> [i \in DOMAIN features |-> features[i][2]]]

\* number of columns the estimator was fitted with: the declared names, or
\* for an estimator without feature_names_in_ all of FeatureNames
Width(feature_names) ==
    IF feature_names # <<>> THEN Len(feature_names) ELSE Cardinality(FeatureNames)

\* model.predict(X) returns: X has the fitted width and holds numbers only
Executes(feature_names, X) ==
    /\ Len(X) = Width(feature_names)
    /\ \A i \in DOMAIN X : X[i] \notin {Null, NotANumber}

\* what the estimator answers on X; the estimator is no part of the program
\* and its answer is represented by the vector it was given
Estimate(X) == X

\* the body of the loop of predict_batch, and of predict after load_model:
\* alignment, then execution
PredictOne(feature_names, features) ==
    LET p == PrepareFeatures(feature_names, features)
    IN  IF ~p.ok THEN [result |-> "MissingFeatures", value |-> p.missing]
        ELSE IF ~Executes(feature_names, p.X)
        THEN [result |-> "ExecutionFailed", value |-> <<>>]
        ELSE [result |-> "predicted", value |-> Estimate(p.X)]

\* variant: an element that raises is passed over and the loop goes on
PredictAllSkipping(feature_names, features_list) ==
    LET good == SelectSeq(features_list,
                    LAMBDA f : PredictOne(feature_names, f).result = "predicted")
    IN  [result |-> "batch_predicted",
         value |-> [i \in DOMAIN good |-> PredictOne(feature_names, good[i]).value]]

\* the loop of predict_batch under its single try: the first element that
\* raises ends the call with "Batch prediction failed"
PredictAll(feature_names, features_list) ==
    IF \A i \in DOMAIN features_list :
            PredictOne(feature_names, features_list[i]).result = "predicted"
    THEN [result |-> "batch_predicted",
          value |-> [i \in DOMAIN features_list |->
                        PredictOne(feature_names, features_list[i]).value]]
    ELSE [result |-> "BatchFailed", value |-> <<>>]

\* variant: the threshold of "High" is exclusive
GetConfidenceLevelStrict(probability) ==
    IF probability > HighThreshold THEN "High"
    ELSE IF probability >= MediumThreshold THEN "Medium"
    ELSE "Low"

\* _get_confidence_level
GetConfidenceLevel(probability) ==
    IF probability >= HighThreshold THEN "High"
    ELSE IF probability >= MediumThreshold THEN "Medium"
    ELSE "Low"

\* the probability and confidence of the response of predict: both None
\* unless the estimator has predict_proba, whose answer is proba
Scored(outcome, proba) ==
    IF outcome.result = "predicted" /\ proba # NoProba
    THEN [result |-> outcome.result, value |-> outcome.value,
          probability |-> proba, confidence |-> GetConfidenceLevel(proba)]
    ELSE [result |-> outcome.result, value |-> outcome.value,
          probability |-> NoProba, confidence |-> "none"]

\* the exception that leaves predict and predict_batch on an outcome: their
\* "except Exception" turns whatever was raised into a ValueError
Raised(result) ==
    IF result \in {"predicted", "batch_predicted"} THEN "none" ELSE "ValueError"

\* the status code the routes of routers/predict.py answer with
HttpStatus(exception) ==
    IF exception = "none" THEN 200
    ELSE IF exception = "ValueError" THEN 400
    ELSE 500

\* the status code kept in the outcome: that of the route, or 0 for a call
\* made on the service itself
StatusOf(result, routed) == IF routed THEN HttpStatus(Raised(result)) ELSE 0

\* the call of load_model that opens predict and predict_batch, followed by
\* outcome when the model was returned; feature_names of the record is
\* request.feature_names.  routed tells whether the call is made by a route
ServedAt(model_id, outcome, routed) ==
    /\ UNCHANGED <<models, files, disk, nextId, now, faults, torn, request, uploads, retired, calls>>
    /\ IF LoadOutcome(model_id) \in {"hit", "load"}
       THEN /\ LoadOutcome(model_id) = "load" => Cardinality(loaded_models) < MaxLoaded
            /\ loaded_models' = loaded_models \cup {model_id}
            /\ last' = [Call(outcome.result, 0, FALSE, FALSE)
                            EXCEPT !.value = outcome.value,
                                   !.probability = outcome.probability,
                                   !.confidence = outcome.confidence,
                                   !.http = StatusOf(outcome.result, routed)]
       ELSE /\ UNCHANGED loaded_models
            /\ last' = [Call(LoadOutcome(model_id),
                             IF LoadOutcome(model_id) = "NotFound" THEN 0 ELSE model_id,
                             FALSE, FALSE)
                            EXCEPT !.http = StatusOf(LoadOutcome(model_id), routed)]

\* a call made on the prediction service itself
Served(model_id, outcome) == ServedAt(model_id, outcome, FALSE)

\* PredictionService.predict
Predict(model_id, features) ==
    Served(model_id, Scored(PredictOne(request.feature_names, features),
                            request.proba))

\* POST /models/{model_id}/predict
PredictRoute(model_id, features) ==
    ServedAt(model_id, Scored(PredictOne(request.feature_names, features),
                              request.proba), TRUE)

\* PredictionService.predict_batch
PredictBatch(model_id, features_list) ==
    Served(model_id, Scored(PredictAll(request.feature_names, features_list),
                            NoProba))

\* POST /models/{model_id}/predict/batch
PredictBatchRoute(model_id, features_list) ==
    ServedAt(model_id, Scored(PredictAll(request.feature_names, features_list),
                              NoProba), TRUE)

\* PredictionService._prepare_features
PrepareFeaturesCall(model_id, features) ==
    /\ UNCHANGED <<models, loaded_models, files, disk, nextId, now, faults, torn, request, uploads, retired, calls>>
    /\ IF model_id \notin DOMAIN models
       THEN last' = Call("NotFound", 0, FALSE, FALSE)
       ELSE LET p == PrepareFeatures(request.feature_names, features)
            IN  last' = [Call(IF p.ok THEN "prepared" ELSE "MissingFeatures",
                              0, FALSE, FALSE)
                            EXCEPT !.value = IF p.ok THEN p.X ELSE p.missing]

\* feature_names a record may carry: none, or distinct names in some order
Declared ==
    {d \in UNION {[1..k -> FeatureNames] : k \in 0..Cardinality(FeatureNames)} :
        \A i, j \in DOMAIN d : i # j => d[i] # d[j]}

\* requests: one features dict of up to MaxKeys keys, or a batch of up to
\* MaxBatch dicts of at most one key each
Requests ==
    [feature_names : Declared,
     batch : {<<f>> : f \in FeatureMaps(MaxKeys)}
             \cup UNION {[1..k -> FeatureMaps(1)] : k \in 0..MaxBatch},
     proba : {NoProba}]

\* one deployed model has been uploaded and a request has arrived
InitPredict ==
    /\ models = Put(EmptyRegistry, 1,
                    NewRecord(1, [name |-> "a"],
                              [version |-> 1, parent_model_id |-> NoParent], 1, TRUE))
    /\ loaded_models = {}
    /\ files = {1}
    /\ disk = models
    /\ nextId = 2
    /\ now = 1
    /\ faults = 0
    /\ torn = FALSE
    /\ request \in Requests
    /\ uploads = <<>>
    /\ retired = {}
    /\ calls = NoCalls
    /\ last = Call("saved", 1, FALSE, FALSE)

NextPredict ==
    \/ \E model_id \in 1..2 :
            /\ request.batch # <<>>
            /\ PrepareFeaturesCall(model_id, request.batch[1])
    \/ \E model_id \in 1..2 :
            /\ request.batch # <<>>
            /\ Predict(model_id, request.batch[1])
    \/ \E model_id \in 1..2 : PredictBatch(model_id, request.batch)
    \/ \E model_id \in 1..2 :
            /\ request.batch # <<>>
            /\ PredictRoute(model_id, request.batch[1])
    \/ \E model_id \in 1..2 : PredictBatchRoute(model_id, request.batch)

SpecPredict == InitPredict /\ [][NextPredict]_vars

----------------------------------------------------------------------------
(* Registry operations with the model cache in use *)

\* The same operations with the model cache in use: artifacts may fail to
\* deserialize, and the writes succeed
NextCache ==
    \/ \E name \in Names, inv \in BOOLEAN, parent \in Ids \cup {NoParent},
          loadOk \in BOOLEAN :
            SaveModel(name, inv, parent, TRUE, loadOk, TRUE)
    \/ \E model_id \in Ids : DeleteModel(model_id, TRUE)
    \/ \E model_id \in Ids : ToolDeleteModel(model_id, TRUE, TRUE)
    \/ \E model_id \in Ids : LoadModel(model_id)
    \/ Restart(TRUE)

SpecCache == Init /\ [][NextCache]_vars

\* features sent to predict while the registry is at work: one dict the
\* estimator answers and one it raises on
Probes == {<<<<"f1", "1">>, <<"f2", "2">>>>, <<>>}

\* Uploads of first versions, deletes, restarts and predictions: the cache
\* is filled by load_model and by predict
NextServe ==
    \/ \E name \in Names, loadOk \in BOOLEAN :
            SaveModel(name, FALSE, NoParent, TRUE, loadOk, TRUE)
    \/ \E model_id \in Ids : DeleteModel(model_id, TRUE)
    \/ \E model_id \in Ids : ToolDeleteModel(model_id, TRUE, TRUE)
    \/ \E model_id \in Ids : LoadModel(model_id)
    \/ \E model_id \in Ids, features \in Probes : Predict(model_id, features)
    \/ Restart(TRUE)

SpecServe == Init /\ [][NextServe]_vars

----------------------------------------------------------------------------
(* Predictions of an estimator that may have predict_proba *)

\* requests to a record that declares f1 and f2, with what predict_proba
\* will answer if the estimator has it
ScoredRequests ==
    [feature_names : {<<"f1", "f2">>},
     batch : {<<f>> : f \in Probes},
     proba : Probabilities \cup {NoProba}]

\* one deployed model has been uploaded and a request has arrived
InitConfidence ==
    /\ models = Put(EmptyRegistry, 1,
                    NewRecord(1, [name |-> "a"],
                              [version |-> 1, parent_model_id |-> NoParent], 1, TRUE))
    /\ loaded_models = {}
    /\ files = {1}
    /\ disk = models
    /\ nextId = 2
    /\ now = 1
    /\ faults = 0
    /\ torn = FALSE
    /\ request \in ScoredRequests
    /\ uploads = <<>>
    /\ retired = {}
    /\ calls = NoCalls
    /\ last = Call("saved", 1, FALSE, FALSE)

NextConfidence ==
    \/ \E model_id \in 1..2 : Predict(model_id, request.batch[1])
    \/ \E model_id \in 1..2 : PredictRoute(model_id, request.batch[1])

SpecConfidence == InitConfidence /\ [][NextConfidence]_vars

----------------------------------------------------------------------------
(* Upload requests in flight on the event loop *)

\* an upload request as the table holds it: the form fields, how far its
\* handler has got, the id of the record in its response (0 when the
\* response is a failure), and whether another handler was suspended in
\* file.read() when this one called save_model
Upload(name, inv, parent) ==
    [name |-> name, is_new_version |-> inv, parent_model_id |-> parent,
     phase |-> "reading", model_id |-> 0, overlapped |-> FALSE]

\* upload_model up to "content = await file.read()", where the handler is
\* suspended and the event loop goes on to other requests
UploadReceive(name, inv, parent) ==
    /\ Len(uploads) < MaxUploads
    /\ uploads' = Append(uploads, Upload(name, inv, parent))
    /\ UNCHANGED <<models, loaded_models, files, disk, nextId, now, faults, torn,
                   request, retired, calls, last>>

\* upload_model from the return of file.read() to its response: the handler
\* is a coroutine with no await left, and save_model is an ordinary function,
\* so the event loop runs no other handler before the response is built
UploadSave(i) ==
    /\ uploads[i].phase = "reading"
    /\ SaveModelBody(uploads[i].name, uploads[i].is_new_version,
                     uploads[i].parent_model_id, TRUE, TRUE, TRUE)
    /\ uploads' = [uploads EXCEPT
                    ![i].phase = "responded",
                    ![i].model_id = last'.id,
                    ![i].overlapped = \E j \in DOMAIN uploads :
                                        j # i /\ uploads[j].phase = "reading"]
    /\ UNCHANGED <<retired, calls>>

\* one deployed model has been uploaded
InitUpload ==
    /\ models = Put(EmptyRegistry, 1,
                    NewRecord(1, [name |-> "a"],
                              [version |-> 1, parent_model_id |-> NoParent], 1, TRUE))
    /\ loaded_models = {}
    /\ files = {1}
    /\ disk = models
    /\ nextId = 2
    /\ now = 1
    /\ faults = 0
    /\ torn = FALSE
    /\ request = NoRequest
    /\ uploads = <<>>
    /\ retired = {}
    /\ calls = NoCalls
    /\ last = Call("saved", 1, FALSE, FALSE)

\* uploads of first versions and of new versions of a named parent arrive
\* while earlier ones are still being read, and resume in any order
NextUpload ==
    \/ \E name \in Names : UploadReceive(name, FALSE, NoParent)
    \/ \E name \in Names, parent \in Ids : UploadReceive(name, TRUE, parent)
    \/ \E i \in DOMAIN uploads : UploadSave(i)

SpecUpload == InitUpload /\ [][NextUpload]_vars

----------------------------------------------------------------------------
(* Lineages over their lifetime: saves and deletes with the deleted
   records remembered *)

\* what is remembered of record model_id when it is deleted: its version
\* and the other members of its family at that moment
Retired(ms, model_id) ==
    [id |-> model_id,
     version |-> ms[model_id].version,
     kin |-> GetModelFamily(ms, model_id) \ {model_id}]

\* DELETE /models/{model_id} of a record that exists
DeleteModelRecorded(model_id) ==
    /\ model_id \in DOMAIN models
    /\ DeleteModelBody(model_id, TRUE)
    /\ retired' = retired \cup {Retired(models, model_id)}
    /\ UNCHANGED calls

\* the chat tool delete_model on a record that exists
ToolDeleteModelRecorded(model_id) ==
    /\ model_id \in DOMAIN models
    /\ ToolDeleteModelBody(model_id, TRUE, TRUE)
    /\ retired' = retired \cup {Retired(models, model_id)}
    /\ UNCHANGED calls

NextLineage ==
    \/ \E name \in Names, inv \in BOOLEAN, parent \in Ids \cup {NoParent} :
            SaveModel(name, inv, parent, TRUE, TRUE, TRUE)
    \/ \E model_id \in Ids : DeleteModelRecorded(model_id)
    \/ \E model_id \in Ids : ToolDeleteModelRecorded(model_id)

SpecLineage == Init /\ [][NextLineage]_vars

----------------------------------------------------------------------------
(* load_model on a worker thread while delete_model runs on the event loop.
   ChatAgent.chat hands agent.run to the thread pool, so the prediction
   tools, and with them load_model, run on a worker thread while the
   DELETE route runs delete_model on the event loop; the registry holds no
   lock, and the threads switch between statements *)

\* what a step of load_model leaves unchanged apart from the cache
LoadFrame ==
    UNCHANGED <<models, files, disk, nextId, now, faults, torn, request,
                uploads, retired>>

\* the load_model call goes on to pc, or ends with result
LoadGoes(pc) ==
    /\ calls' = [calls EXCEPT !.load.pc = pc]
    /\ UNCHANGED last

LoadEnds(result) ==
    /\ calls' = [calls EXCEPT !.load = Idle]
    /\ last' = Call(result, calls.load.id, FALSE, FALSE)

\* "if model_id not in self.models: raise ValueError"
LoadBegin(model_id) ==
    /\ calls.load.pc = "idle"
    /\ LoadFrame /\ UNCHANGED loaded_models
    /\ IF model_id \in DOMAIN models
       THEN /\ calls' = [calls EXCEPT !.load = [pc |-> "found", id |-> model_id]]
            /\ UNCHANGED last
       ELSE /\ UNCHANGED calls
            /\ last' = Call("NotFound", 0, FALSE, FALSE)

\* "if model_id in self.loaded_models: return self.loaded_models[model_id]"
LoadLookup ==
    /\ calls.load.pc = "found"
    /\ LoadFrame /\ UNCHANGED loaded_models
    /\ IF calls.load.id \in loaded_models
       THEN LoadEnds("loaded")
       ELSE LoadGoes("missed")

\* "model_meta = self.models[model_id]" and the status check
LoadMeta ==
    /\ calls.load.pc = "missed"
    /\ LoadFrame /\ UNCHANGED loaded_models
    /\ IF calls.load.id \notin DOMAIN models
       THEN LoadEnds("KeyError")
       ELSE IF models[calls.load.id].status # "deployed"
       THEN LoadEnds("NotDeployed")
       ELSE LoadGoes("deployed")

\* "model = joblib.load(model_meta.file_path)"
LoadRead ==
    /\ calls.load.pc = "deployed"
    /\ LoadFrame /\ UNCHANGED loaded_models
    /\ IF calls.load.id \in files
       THEN LoadGoes("read")
       ELSE LoadEnds("LoadFailed")

\* "self.loaded_models[model_id] = model; return model"
LoadStore ==
    /\ calls.load.pc = "read"
    /\ Cardinality(loaded_models \cup {calls.load.id}) <= MaxLoaded
    /\ LoadFrame
    /\ loaded_models' = loaded_models \cup {calls.load.id}
    /\ LoadEnds("loaded")

\* the delete_model call goes on to pc
DeleteGoes(pc) ==
    /\ calls' = [calls EXCEPT !.delete.pc = pc]
    /\ UNCHANGED <<nextId, now, faults, request, uploads, retired, last>>

\* "if model_id not in self.models: return False" and
\* "model_meta = self.models[model_id]"
DeleteBegin(model_id) ==
    /\ calls.delete.pc = "idle"
    /\ UNCHANGED <<models, loaded_models, files, disk, torn, nextId, now, faults,
                   request, uploads, retired>>
    /\ IF model_id \in DOMAIN models
       THEN /\ calls' = [calls EXCEPT !.delete = [pc |-> "found", id |-> model_id]]
            /\ UNCHANGED last
       ELSE /\ UNCHANGED calls
            /\ last' = Call("NotFound", 0, FALSE, FALSE)

\* "Path(model_meta.file_path).unlink()"
DeleteUnlink ==
    /\ calls.delete.pc = "found"
    /\ files' = files \ {calls.delete.id}
    /\ UNCHANGED <<models, loaded_models, disk, torn>>
    /\ DeleteGoes("unlinked")

\* "if model_id in self.loaded_models: del self.loaded_models[model_id]"
DeleteEvict ==
    /\ calls.delete.pc = "unlinked"
    /\ loaded_models' = Evict(loaded_models, calls.delete.id)
    /\ UNCHANGED <<models, files, disk, torn>>
    /\ DeleteGoes("evicted")

\* "del self.models[model_id]"
DeleteRemove ==
    /\ calls.delete.pc = "evicted"
    /\ models' = Remove(models, calls.delete.id)
    /\ UNCHANGED <<loaded_models, files, disk, torn>>
    /\ DeleteGoes("removed")

\* "self._save_registry(); return True"
DeletePersist ==
    /\ calls.delete.pc = "removed"
    /\ disk' = SaveRegistry(models, disk, TRUE)
    /\ torn' = StillTorn(torn, TRUE)
    /\ calls' = [calls EXCEPT !.delete = Idle]
    /\ last' = Call("deleted", calls.delete.id, FALSE, FALSE)
    /\ UNCHANGED <<models, loaded_models, files, nextId, now, faults, request,
                   uploads, retired>>

\* Uploads of first versions between the calls of the event loop, and the
\* statements of a load_model and of a delete_model in any order
NextRace ==
    \/ \E name \in Names :
            /\ calls.delete.pc = "idle"
            /\ SaveModel(name, FALSE, NoParent, TRUE, TRUE, TRUE)
    \/ \E model_id \in Ids : LoadBegin(model_id)
    \/ LoadLookup
    \/ LoadMeta
    \/ LoadRead
    \/ LoadStore
    \/ \E model_id \in Ids : DeleteBegin(model_id)
    \/ DeleteUnlink
    \/ DeleteEvict
    \/ DeleteRemove
    \/ DeletePersist

SpecRace == Init /\ [][NextRace]_vars

----------------------------------------------------------------------------
(* The process dies inside _save_registry *)

\* save_model up to its _save_registry, where the process dies after
\* open(registry_path, "w") has truncated the file and before json.dump has
\* written the document; the process is then started again and loads what
\* is left
SaveModelInterrupted(name, inv, parent) ==
    LET meta == [name |-> name, is_new_version |-> inv, parent_model_id |-> parent]
    IN  /\ ~(VersioningBranch(meta) = "explicit" /\ ParentMissing(models, meta))
        /\ Room(1)
        /\ faults' = faults + 1
        /\ now' = now + 1
        /\ nextId' = nextId + 1
        /\ files' = files \cup {nextId}
        /\ torn' = TRUE
        /\ models' = LoadRegistry(disk, torn')
        /\ loaded_models' = {}
        /\ last' = Call("crashed", nextId, inv, parent # NoParent)
        /\ UNCHANGED <<disk, request, uploads, retired, calls>>

\* delete_model up to its _save_registry, where the process dies in the
\* same way
DeleteModelInterrupted(model_id) ==
    /\ model_id \in DOMAIN models
    /\ Room(1)
    /\ faults' = faults + 1
    /\ files' = files \ {model_id}
    /\ torn' = TRUE
    /\ models' = LoadRegistry(disk, torn')
    /\ loaded_models' = {}
    /\ last' = Call("crashed", model_id, models[model_id].is_latest, FALSE)
    /\ UNCHANGED <<disk, nextId, now, request, uploads, retired, calls>>

\* the restart that follows a crash which left the document whole:
\* _load_registry and, when it completes, the _save_registry of its
\* reconciliation pass
Recovered ==
    /\ models' = LoadRegistry(disk, torn)
    /\ loaded_models' = {}
    /\ disk' = IF LoadCompletes(disk, torn) THEN models' ELSE disk
    /\ UNCHANGED torn

\* save_model up to the end of "with open(model_path, 'wb')", where the
\* process dies: the artifact is on disk and the record is neither stored
\* nor persisted; the process is then started again
SaveModelCrashed(name, inv, parent) ==
    LET meta == [name |-> name, is_new_version |-> inv, parent_model_id |-> parent]
    IN  /\ ~(VersioningBranch(meta) = "explicit" /\ ParentMissing(models, meta))
        /\ Room(1)
        /\ faults' = faults + 1
        /\ now' = now + 1
        /\ nextId' = nextId + 1
        /\ files' = files \cup {nextId}
        /\ Recovered
        /\ last' = Call("crashed", nextId, inv, parent # NoParent)
        /\ UNCHANGED <<request, uploads, retired, calls>>

\* delete_model up to the end of "Path(model_meta.file_path).unlink()",
\* where the process dies: the artifact is gone and the document has not
\* been rewritten; the process is then started again
DeleteModelCrashed(model_id) ==
    /\ model_id \in DOMAIN models
    /\ Room(1)
    /\ faults' = faults + 1
    /\ files' = files \ {model_id}
    /\ Recovered
    /\ last' = Call("crashed", model_id, models[model_id].is_latest, FALSE)
    /\ UNCHANGED <<nextId, now, request, uploads, retired, calls>>

NextCrash ==
    \/ \E name \in Names, inv \in BOOLEAN, parent \in Ids \cup {NoParent} :
            SaveModel(name, inv, parent, TRUE, TRUE, TRUE)
    \/ \E model_id \in Ids : DeleteModel(model_id, TRUE)
    \/ Restart(TRUE)
    \/ \E name \in Names, inv \in BOOLEAN, parent \in Ids \cup {NoParent} :
            SaveModelInterrupted(name, inv, parent)
    \/ \E model_id \in Ids : DeleteModelInterrupted(model_id)
    \/ \E name \in Names, inv \in BOOLEAN, parent \in Ids \cup {NoParent} :
            SaveModelCrashed(name, inv, parent)
    \/ \E model_id \in Ids : DeleteModelCrashed(model_id)

SpecCrash == Init /\ [][NextCrash]_vars

----------------------------------------------------------------------------
(* Startup on a registry document that this or another build left behind *)

\* a record as model_dump wrote it; links is whether it names a parent
WrittenRecords ==
    [name : Names, version : 1..2, links : BOOLEAN, is_latest : BOOLEAN,
     created_at : 1..2]

\* a record written before the versioning fields existed
LegacyRecords == [name : Names, created_at : 1..2]

\* a record that ModelMeta rejects: it has no name
InvalidRecord == [created_at |-> 1]

\* the record of the document that a choice r stands for, at key i of k;
\* a parent link goes to the next key, the last key linking to the first
DocRecord(r, i, k) ==
    IF "name" \notin DOMAIN r THEN r
    ELSE IF "version" \notin DOMAIN r
    THEN [id |-> i, file_path |-> i,
          name |-> r.name, created_at |-> r.created_at, updated_at |-> 2,
          status |-> "deployed", model_info |-> "model_class"]
    ELSE [id |-> i, file_path |-> i,
          name |-> r.name, version |-> r.version,
          parent_model_id |-> IF r.links THEN (i % k) + 1 ELSE NoParent,
          is_latest |-> r.is_latest, created_at |-> r.created_at,
          updated_at |-> 2, status |-> "deployed", model_info |-> "model_class"]

\* what a record of a document that json.load accepts may be
DocChoices == WrittenRecords \cup LegacyRecords \cup {InvalidRecord}

\* the document of k records that the choices f stand for
Doc(f, k) == [i \in 1..k |-> DocRecord(f[i], i, k)]

\* the process is about to start on a document of at most MaxDocRecords
\* records, or on a file that an interrupted write cut short
InitLoad ==
    /\ models = EmptyRegistry
    /\ loaded_models = {}
    /\ \E k \in 0..MaxDocRecords : \E f \in [1..k -> DocChoices] : disk = Doc(f, k)
    /\ torn \in BOOLEAN
    /\ torn => disk = EmptyRegistry
    /\ files = DOMAIN disk
    /\ nextId = Cardinality(DOMAIN disk) + 1
    /\ now = 2
    /\ faults = 0
    /\ request = NoRequest
    /\ uploads = <<>>
    /\ retired = {}
    /\ calls = NoCalls
    /\ last = Call("init", 0, FALSE, FALSE)

\* a call of _get_model_family on the registry as loaded; the outcome is
\* "family" when the call returns and "hangs" when it never does
GetModelFamilyCall(model_id) ==
    /\ last' = Call(IF FamilyLoops(models, model_id) THEN "hangs" ELSE "family",
                    model_id, FALSE, FALSE)
    /\ UNCHANGED <<models, loaded_models, files, disk, nextId, now, faults, torn, request, uploads, retired, calls>>

NextLoad ==
    \/ Restart(TRUE)
    \/ Reconcile(TRUE)
    \/ \E model_id \in DOMAIN models : GetModelFamilyCall(model_id)

SpecLoad == InitLoad /\ [][NextLoad]_vars

----------------------------------------------------------------------------
(* Properties *)

\* the lineage family of r, as the registry resolves it
Family(ms, r) == GetModelFamily(ms, r)

LatestIn(ms, S) == {m \in S : ms[m].is_latest}

\* the last call was a save or a delete that went through, in a run where
\* no write has failed
Completed ==
    /\ last.result \in {"saved", "deleted", "tool_deleted"}
    /\ faults = 0

\* the members of S with the greatest version
GreatestVersion(ms, S) == {m \in S : \A o \in S : ms[o].version <= ms[m].version}

\* C1: after every completed save_model or delete call, no lineage family
\* holds more than one record with is_latest = true
C1_AtMostOneLatest ==
    Completed =>
        \A r \in DOMAIN models : Cardinality(LatestIn(models, Family(models, r))) <= 1

\* C2: after every completed save_model or delete call, every non-empty
\* lineage family holds at least one record with is_latest = true
C2_AtLeastOneLatest ==
    Completed =>
        \A r \in DOMAIN models : LatestIn(models, Family(models, r)) # {}

\* C3: two distinct records of one lineage family have different versions,
\* and the one created earlier has the smaller version
C3_VersionMonotonic ==
    Completed =>
        \A r \in DOMAIN models : \A m1, m2 \in Family(models, r) :
            models[m1].created_at < models[m2].created_at
                => models[m1].version < models[m2].version

\* C4: when a latest record is deleted and its family has another member,
\* after the delete a remaining member of greatest version is latest
C4_DeletePromotes ==
    [][\A d \in Ids :
        ( /\ last'.result \in {"deleted", "tool_deleted"}
          /\ last'.id = d
          /\ faults' = 0
          /\ d \in DOMAIN models
          /\ d \notin DOMAIN models'
          /\ models[d].is_latest
          /\ Family(models, d) \ {d} # {} )
        => \E m \in GreatestVersion(models, Family(models, d) \ {d}) :
               models'[m].is_latest]_vars

\* C5: deleting a record whose is_latest is false leaves is_latest and
\* version of every other record as they were
C5_DeleteNonLatestFrame ==
    [][\A d \in Ids :
        ( /\ last'.result \in {"deleted", "tool_deleted"}
          /\ last'.id = d
          /\ d \in DOMAIN models
          /\ d \notin DOMAIN models'
          /\ ~models[d].is_latest )
        => /\ DOMAIN models' = DOMAIN models \ {d}
           /\ \A m \in DOMAIN models \ {d} :
                /\ models'[m].is_latest = models[m].is_latest
                /\ models'[m].version = models[m].version]_vars

\* C5 witness: the chat tool has deleted a non-latest record and other
\* records remain
C5_Witness ==
    /\ last.result = "tool_deleted"
    /\ ~last.flag
    /\ DOMAIN models # {}

\* C6: a save with is_new_version and an existing parent P registers a
\* record with parent_model_id = P, is_latest = true and version one more
\* than the greatest version in the family of P, and no other member of
\* that family is latest afterwards
C6_ExplicitVersion ==
    [][\A name \in Names, P \in Ids, persistOk \in BOOLEAN :
        (P \in DOMAIN models /\ SaveModel(name, TRUE, P, TRUE, TRUE, persistOk))
        => /\ DOMAIN models' = DOMAIN models \cup {nextId}
           /\ models'[nextId].parent_model_id = P
           /\ models'[nextId].is_latest
           /\ models'[nextId].version =
                1 + MaxOf({models[m].version : m \in Family(models, P)})
           /\ \A m \in Family(models, P) : ~models'[m].is_latest]_vars

\* C6 witness: a new version was saved on a parent that is not itself the
\* member of greatest version of its family
C6_Witness ==
    /\ last.result = "saved"
    /\ last.flag
    /\ last.parent_given
    /\ LET P == models[last.id].parent_model_id
       IN  /\ P \in DOMAIN models
           /\ models[last.id].version > models[P].version + 1
           /\ ~models[P].is_latest

\* C7: a save with is_new_version and a parent_model_id that is not in the
\* registry ends with the parent-not-found error and changes neither the
\* registry mapping, nor the artifact store, nor the model cache
C7_ParentNotFound ==
    [][\A name \in Names, P \in Ids, loadOk \in BOOLEAN :
        (P \notin DOMAIN models /\ SaveModel(name, TRUE, P, TRUE, loadOk, TRUE))
        => /\ last'.result = "ParentNotFound"
           /\ models' = models
           /\ files' = files
           /\ loaded_models' = loaded_models]_vars

\* C7 witness: the error was raised on a registry that holds records and a
\* cached model
C7_Witness ==
    /\ last.result = "ParentNotFound"
    /\ DOMAIN models # {}
    /\ loaded_models # {}

\* C8: a save with is_new_version and no parent, when records of that name
\* exist, acts as the save with the same-named record of greatest version
\* as explicit parent: that parent, version one more than the greatest of
\* the parent's family, is_latest cleared on exactly the latest members of
\* that family; when no record has the name it makes a root of version 1
C8_ByNameAsExplicit ==
    [][\A name \in Names, persistOk \in BOOLEAN :
        (faults' = 0 /\ SaveModel(name, TRUE, NoParent, TRUE, TRUE, persistOk))
        => IF SameName(models, name) = {}
           THEN /\ models'[nextId].version = 1
                /\ models'[nextId].parent_model_id = NoParent
           ELSE \E g \in GreatestVersion(models, SameName(models, name)) :
                /\ models'[nextId].parent_model_id = g
                /\ models'[nextId].version =
                     1 + MaxOf({models[m].version : m \in Family(models, g)})
                /\ \A m \in DOMAIN models :
                     (models'[m].is_latest # models[m].is_latest)
                        <=> (m \in Family(models, g) /\ models[m].is_latest)]_vars

\* C9: a save without is_new_version registers a record of version 1 with
\* no parent and is_latest = true, whatever parent was supplied and whatever
\* records of that name exist, and changes no existing record
C9_PlainSaveIsRoot ==
    [][\A name \in Names, parent \in Ids \cup {NoParent}, persistOk \in BOOLEAN :
        SaveModel(name, FALSE, parent, TRUE, TRUE, persistOk)
        => /\ DOMAIN models' = DOMAIN models \cup {nextId}
           /\ models'[nextId].version = 1
           /\ models'[nextId].parent_model_id = NoParent
           /\ models'[nextId].is_latest
           /\ \A m \in DOMAIN models : models'[m] = models[m]]_vars

\* C9 witness: a save without is_new_version that named a parent went
\* through while another latest record had the same name
C9_Witness ==
    /\ last.result = "saved"
    /\ ~last.flag
    /\ last.parent_given
    /\ \E m \in DOMAIN models \ {last.id} :
        /\ models[m].name = models[last.id].name
        /\ models[m].is_latest

\* C10: after a reload (here of a document that every earlier call wrote in
\* full) every lineage family has exactly one latest member and no two
\* members of a family share a version
C10_ReloadInvariants ==
    (last.result = "restarted" /\ faults = 0) =>
        \A r \in DOMAIN models :
            /\ Cardinality(LatestIn(models, Family(models, r))) = 1
            /\ \A m1, m2 \in Family(models, r) :
                m1 # m2 => models[m1].version # models[m2].version

\* C11: running the reconciliation pass on a registry that has been through
\* it leaves the version and the is_latest value of every record as they are
C11_MigrateIdempotent ==
    [][\A persistOk \in BOOLEAN :
        (last.result \in {"restarted", "migrated"} /\ Reconcile(persistOk))
        => /\ DOMAIN models' = DOMAIN models
           /\ \A m \in DOMAIN models :
                /\ models'[m].version = models[m].version
                /\ models'[m].is_latest = models[m].is_latest]_vars

\* C11 witness: the pass has run a second time on a registry where two
\* records share a name and a creation time and a record names a parent
C11_Witness ==
    /\ last.result = "migrated"
    /\ last.flag
    /\ \E m1, m2 \in DOMAIN models :
        /\ m1 # m2
        /\ models[m1].name = models[m2].name
        /\ models[m1].created_at = models[m2].created_at
        /\ models[m1].parent_model_id # NoParent

\* C12: when the process dies during _save_registry, registry.json holds a
\* whole document (the one before the write or the one being written), and
\* a later load never meets a truncated or partly written file
C12_PersistAtomic ==
    last.result \in {"crashed", "load_failed"} => ~torn

\* C13: when the registry write fails during save_model or delete_model, the
\* call does not end as a success, and the change to the mapping stays
C13_WriteFailureReported ==
    [][/\ \A name \in Names, inv \in BOOLEAN, parent \in Ids \cup {NoParent} :
            ( /\ ~(VersioningBranch([name |-> name, is_new_version |-> inv,
                                     parent_model_id |-> parent]) = "explicit"
                   /\ parent \notin DOMAIN models)
              /\ SaveModel(name, inv, parent, TRUE, TRUE, FALSE) )
            => /\ last'.result # "saved"
               /\ nextId \in DOMAIN models'
       /\ \A model_id \in Ids :
            (model_id \in DOMAIN models /\ DeleteModel(model_id, FALSE))
            => /\ last'.result # "deleted"
               /\ model_id \notin DOMAIN models']_vars

\* C14: when the document fails to load at startup (it does not parse, or
\* one of its records fails validation), the registry is empty afterwards
C14_FailedLoadIsEmpty ==
    last.result = "load_failed" => models = EmptyRegistry

C17_StatusFollowsInspection ==
    [][/\ \A m \in DOMAIN models' : models'[m].status \in {"deployed", "error"}
       /\ \A name \in Names, inv \in BOOLEAN, parent \in Ids \cup {NoParent},
             loadOk \in BOOLEAN :
            ( /\ nextId' # nextId
              /\ last'.flag = inv
              /\ last'.parent_given = (parent # NoParent)
              /\ ~(inv /\ parent # NoParent /\ parent \notin DOMAIN models)
              /\ SaveModel(name, inv, parent, TRUE, loadOk, TRUE) )
            => /\ last'.result = "saved"
               /\ last'.id = nextId
               /\ nextId \in DOMAIN models'
               /\ nextId \in files'
               /\ models'[nextId].status = "deployed" <=> loadOk
               /\ ~loadOk => /\ models'[nextId].status = "error"
                              /\ models'[nextId].model_info = "error"]_vars

\* C17 witness: an upload that could not be deserialized was registered in
\* status error, its artifact is in the store, and a deployed record exists
C17_Witness ==
    /\ last.result = "saved"
    /\ models[last.id].status = "error"
    /\ models[last.id].model_info = "error"
    /\ last.id \in files
    /\ \E m \in DOMAIN models : models[m].status = "deployed"

\* the declared names that are no key of the features, in declared order
Absent(feature_names, features) ==
    SelectSeq(feature_names, LAMBDA name : ~HasKey(features, name))

\* the values sent for the declared names, in declared order
Aligned(feature_names, features) ==
    [i \in DOMAIN feature_names |-> ValueOf(features, feature_names[i])]

\* the call at hand prepared the features of a record that declares names
PreparedDeclared ==
    /\ request.feature_names # <<>>
    /\ request.batch # <<>>
    /\ last.result \in {"prepared", "MissingFeatures"}

\* C18: for a record that declares feature_names, feature preparation fails
\* exactly when some declared name is no key of the input, and the error
\* lists exactly the declared names that are no key of the input
C18_MissingIsAbsent ==
    PreparedDeclared =>
        /\ last.result = "MissingFeatures"
                <=> Absent(request.feature_names, request.batch[1]) # <<>>
        /\ last.result = "MissingFeatures"
                => last.value = Absent(request.feature_names, request.batch[1])

\* C19: for a record that declares feature_names and an input that has every
\* declared name as a key, the vector built is the input's values for the
\* declared names, in declared order
C19_VectorInDeclaredOrder ==
    ( /\ PreparedDeclared
      /\ Absent(request.feature_names, request.batch[1]) = <<>> )
    => /\ last.result = "prepared"
       /\ last.value = Aligned(request.feature_names, request.batch[1])

\* an element that aligns and on which the estimator returns
WellFormed(feature_names, features) ==
    IF feature_names # <<>>
    THEN \A i \in DOMAIN feature_names :
            /\ HasKey(features, feature_names[i])
            /\ ValueOf(features, feature_names[i]) \notin {Null, NotANumber}
    ELSE /\ Len(features) = Cardinality(FeatureNames)
         /\ \A i \in DOMAIN features : features[i][2] \notin {Null, NotANumber}

\* the vector of a well-formed element
VectorOf(feature_names, features) ==
    IF feature_names # <<>> THEN Aligned(feature_names, features)
    ELSE [i \in DOMAIN features |-> features[i][2]]

\* predict_batch was called on a model that could be loaded
BatchServed == last.result \in {"batch_predicted", "BatchFailed"}

\* C20 as stated: every well-formed element of a batch yields its own
\* prediction result, whatever else the batch holds
C20_BatchPartialSuccess ==
    BatchServed =>
        \A i \in DOMAIN request.batch :
            WellFormed(request.feature_names, request.batch[i])
            => \E j \in DOMAIN last.value :
                    last.value[j] = VectorOf(request.feature_names, request.batch[i])

\* C20: predict_batch returns one result per element, in order, when every
\* element is well-formed; as soon as one element fails alignment or
\* execution the call fails as a whole and returns no result at all
C20_BatchAllOrNothing ==
    BatchServed =>
        IF \A i \in DOMAIN request.batch :
                WellFormed(request.feature_names, request.batch[i])
        THEN /\ last.result = "batch_predicted"
             /\ Len(last.value) = Len(request.batch)
             /\ \A i \in DOMAIN request.batch :
                    last.value[i] = VectorOf(request.feature_names, request.batch[i])
        ELSE /\ last.result = "BatchFailed"
             /\ last.value = <<>>

\* C20 witness: the batch failed although a well-formed element follows the
\* malformed one
C20_Witness ==
    /\ last.result = "BatchFailed"
    /\ \E i, j \in DOMAIN request.batch :
        /\ i < j
        /\ ~WellFormed(request.feature_names, request.batch[i])
        /\ WellFormed(request.feature_names, request.batch[j])

\* C21: a prediction request that a route answers for a model id that is not
\* in the registry gets the not-found status 404, and one whose features miss
\* a declared name gets the validation status 400
C21_NotFoundIs404 ==
    last.http # 0 =>
        /\ last.result = "NotFound" => last.http = 404
        /\ last.result = "MissingFeatures" => last.http = 400

\* C24: the confidence label of a prediction result is decided by its
\* probability p alone, "High" when p >= 0.8, "Medium" when 0.6 <= p < 0.8
\* and "Low" when p < 0.6, and the result carries a label if and only if it
\* carries a probability
C24_ConfidenceFollowsProbability ==
    last.result = "predicted" =>
        /\ last.confidence # "none" <=> last.probability # NoProba
        /\ last.probability # NoProba =>
                last.confidence =
                    IF last.probability >= 80 THEN "High"
                    ELSE IF last.probability >= 60 THEN "Medium"
                    ELSE "Low"

\* a prediction whose probability is exactly 0.8 is labelled "High"
C24_Witness ==
    /\ last.result = "predicted"
    /\ last.probability = 80
    /\ last.confidence = "High"

\* C23: whenever get_latest_model_by_name(name) returns a record, the record
\* is flagged is_latest, so that find_model_by_name and
\* predict_with_model_name never resolve to a record that is not
C23_NameLookupIsLatest ==
    \A name \in Names :
        SameName(models, name) # {} =>
            models[GetLatestModelByName(models, name)].is_latest

\* C27: every step that changes the is_latest flag of a record (a demotion by
\* a save, a promotion after a delete, a flip by reconciliation) also
\* advances the updated_at of that record
C27_FlagChangeAdvancesUpdatedAt ==
    [][\A m \in DOMAIN models \cap DOMAIN models' :
            models'[m].is_latest # models[m].is_latest
                => models'[m].updated_at > models[m].updated_at]_vars

\* C30: a save_model that fails while storing the artifact bytes leaves the
\* registry as it was before the call: no record is registered, no artifact
\* file remains, and no is_latest or updated_at of a record has changed
C30_FailedSaveLeavesRegistry ==
    [][\A name \in Names, inv \in BOOLEAN, parent \in Ids \cup {NoParent} :
            SaveModel(name, inv, parent, FALSE, TRUE, TRUE)
                => models' = models /\ files' = files]_vars

\* C29: starting from an empty registry, after any sequence of saves and
\* deletes the parent_model_id links contain no cycle: the walk from any
\* record reaches a record without a parent, or an id that is missing, within
\* as many steps as there are records
C29_NoParentCycle ==
    \A r \in DOMAIN models :
        RootWalk(models, r, Cardinality(DOMAIN models)) # Diverges

\* a delete has left one record with a parent that is gone and another
\* record whose parent exists
C29_Witness ==
    /\ last.result \in {"deleted", "tool_deleted"}
    /\ \E r \in DOMAIN models :
            /\ models[r].parent_model_id # NoParent
            /\ models[r].parent_model_id \notin DOMAIN models
    /\ \E r \in DOMAIN models : models[r].parent_model_id \in DOMAIN models

\* C28: in every registry without a parent cycle, also when an ancestor has
\* been deleted and a parent_model_id names no record, family resolution is
\* an equivalence: every record is a member of its own family, and the
\* family of every member of a family is that same family
C28_FamilyIsEquivalence ==
    \A r \in DOMAIN models :
        /\ r \in GetModelFamily(models, r)
        /\ \A m \in GetModelFamily(models, r) :
                GetModelFamily(models, m) = GetModelFamily(models, r)

\* the root of a family of two has been deleted: one record names a parent
\* that is gone and the other descends from that record
C28_Witness ==
    \E r, d \in DOMAIN models :
        /\ models[r].parent_model_id # NoParent
        /\ models[r].parent_model_id \notin DOMAIN models
        /\ models[d].parent_model_id = r
        /\ GetModelFamily(models, d) = {r, d}

\* C25: family resolution returns for every registry content, also one whose
\* parent_model_id links form a cycle, where it ends with a corrupt-lineage
\* failure: a call of _get_model_family never goes on for ever
C25_FamilyResolutionTerminates ==
    last.result # "hangs"

\* C26: once save_model has registered a record, no later operation (a save
\* or a delete of another record, a reload with reconciliation) changes its
\* id, parent_model_id, file_path or status, so that a record never leaves
\* "deployed" or "error"
C26_RegisteredFieldsAreFrozen ==
    [][\A m \in DOMAIN models \cap DOMAIN models' :
            /\ models'[m].id = models[m].id
            /\ models'[m].parent_model_id = models[m].parent_model_id
            /\ models'[m].file_path = models[m].file_path
            /\ models'[m].status = models[m].status]_vars

\* a record whose inspection failed has been superseded by a new version of
\* it, and both have gone through a reload
C26_Witness ==
    /\ last.result = "restarted"
    /\ \E m, o \in DOMAIN models :
            /\ models[m].status = "error"
            /\ ~models[m].is_latest
            /\ models[o].parent_model_id = m
            /\ models[o].status = "deployed"

\* C22: under any interleaving of two concurrent save_model calls with
\* is_new_version = true and the same parent_model_id, the two new records
\* are assigned different version numbers
C22_ConcurrentVersionsDiffer ==
    \A i, j \in DOMAIN uploads :
        ( /\ i # j
          /\ uploads[i].model_id # 0 /\ uploads[j].model_id # 0
          /\ uploads[i].is_new_version /\ uploads[j].is_new_version
          /\ uploads[i].parent_model_id = uploads[j].parent_model_id )
        => models[uploads[i].model_id].version # models[uploads[j].model_id].version

\* two uploads of a new version of the same parent were in flight together
\* and both have registered their record
C22_Witness ==
    \E i, j \in DOMAIN uploads :
        /\ i # j
        /\ uploads[i].model_id # 0 /\ uploads[j].model_id # 0
        /\ uploads[i].is_new_version /\ uploads[j].is_new_version
        /\ uploads[i].parent_model_id = uploads[j].parent_model_id
        /\ uploads[i].overlapped

\* C31: a save_model call never changes is_latest or version of a record
\* outside the lineage family that the new record joins; independent roots
\* of the same name keep their flag when a new version is saved by name
C31_SaveFrameOutsideFamily ==
    [][(nextId' # nextId /\ last'.result = "saved") =>
            \A m \in DOMAIN models :
                m \notin GetModelFamily(models', nextId) =>
                    /\ models'[m].is_latest = models[m].is_latest
                    /\ models'[m].version = models[m].version]_vars

\* C32: a delete never splits a lineage family: two surviving records that
\* _get_model_family put in the same family before the delete are in the
\* same family after it, whether the record removed was a root, a middle
\* link or a leaf
C32_DeleteKeepsFamilyTogether ==
    [][(last'.result \in {"deleted", "tool_deleted"}
            /\ DOMAIN models' = DOMAIN models \ {last'.id}) =>
            \A a, b \in DOMAIN models' :
                b \in GetModelFamily(models, a)
                    => b \in GetModelFamily(models', a)]_vars

\* C33: within a lineage family a version number is never assigned twice:
\* once a member with version v has been deleted, no later save_model into
\* that family assigns a version less than or equal to v
C33_VersionNeverReused ==
    [][(nextId' # nextId /\ last'.result = "saved") =>
            \A d \in retired :
                d.kin \cap GetModelFamily(models', nextId) # {}
                    => models'[nextId].version > d.version]_vars

\* C34: persist followed by reload is a round trip: when the document is
\* the registry as _save_registry wrote it, a restart (load and
\* reconciliation) yields the same records, each with the same version,
\* parent_model_id and is_latest
C34_PersistReloadRoundTrip ==
    [][(Restart(TRUE) /\ ~torn /\ disk = models) =>
            /\ DOMAIN models' = DOMAIN models
            /\ \A m \in DOMAIN models :
                    /\ models'[m].version = models[m].version
                    /\ models'[m].parent_model_id = models[m].parent_model_id
                    /\ models'[m].is_latest = models[m].is_latest]_vars

\* C35: under any interleaving of load_model(id) with delete_model(id), once
\* both calls have finished the model cache holds no entry for the deleted
\* id: the cache never keeps a model for a record that is not in the registry
C35_NoCacheEntryAfterDelete ==
    (calls.load.pc = "idle" /\ calls.delete.pc = "idle")
        => loaded_models \subseteq DOMAIN models

\* C36: at every point at which the process may crash during save_model or
\* delete_model, each record of the persisted document has its artifact
\* file in the store, so that after the restart no deployed record fails to
\* load for lack of its artifact
C36_PersistedRecordsHaveArtifact ==
    /\ ~torn => DOMAIN disk \subseteq files
    /\ \A m \in DOMAIN models :
            models[m].status = "deployed" => LoadOutcome(m) # "LoadFailed"

====
